---- MODULE Spec2Model ----
(***************************************************************************)
(* Model of the retargeting pipeline of Blender/auto_oneclick.py:          *)
(* landmark feed -> moving_average -> norm_to_world -> import_mixamo ->    *)
(* auto-scale/align -> apply_quaternion_animation -> bake_pose -> export.  *)
(* and of the /animate-character handler of app.py that starts it.         *)
(*                                                                         *)
(* Numbers.  Coordinates are exact rationals <<n, d>> (d > 0, lowest       *)
(* terms); the float32/float64 rounding of NumPy and mathutils is not      *)
(* modelled.  A length is carried as its square, a unit vector as the      *)
(* pair (direction, squared length of the direction), so that no square    *)
(* root is needed and every comparison with 1e-6 is exact.                 *)
(* Indices.  Frames and landmarks are indexed from 0 as in the code; the   *)
(* three coordinates lm[0], lm[1], lm[2] are the tuple places 1, 2, 3.     *)
(***************************************************************************)
EXTENDS Integers, Sequences, FiniteSets, TLC

VARIABLES
    pc,                  \* position of the script in the PIPELINE section
    error,               \* the exception that ended the script, or "none"
    json_exists,         \* os.path.exists(JSON_PATH)
    fbx_exists,          \* os.path.exists(CHAR_FBX)
    feed_wrapped,        \* TRUE: frames are {"landmarks": [...]}, FALSE: bare lists
    pose,                \* the frames of the feed file (raw landmarks)
    scene_cleared,       \* safe_clear_scene() has run
    arr_s,               \* the smoothed array, shape (T, L, 3)
    landmark_data_world, \* frame index -> list of world positions
    rig,                 \* the imported armature, or NoRig
    existing_bones,      \* the mapping entries resolved in the rig
    frame_idx,           \* loop variable of the Track Builder
    reported_missing,    \* the mapping bones printed as Missing (line 197)
    RENDER_PREVIEW,      \* the CONFIG switch of line 20
    out_mp4_written,     \* render.render(animation=True) has written OUT_MP4
    keyframes,           \* the keyframes inserted so far
    scene_range,         \* <<scene.frame_start, scene.frame_end>>
    bake_args,           \* <<f_start, f_end>> given to bake_pose, or NoBake
    out_fbx_written,     \* the export operator has written OUT_FBX
    call                 \* a single call of a pure function (harness specifications)

vars == <<pc, error, json_exists, fbx_exists, feed_wrapped, pose, scene_cleared,
          arr_s, landmark_data_world, rig, existing_bones, frame_idx, keyframes,
          scene_range, bake_args, out_fbx_written, reported_missing,
          RENDER_PREVIEW, out_mp4_written, call>>

pipeline_vars == <<pc, error, json_exists, fbx_exists, feed_wrapped, pose,
                   scene_cleared, arr_s, landmark_data_world, rig, existing_bones,
                   frame_idx, keyframes, scene_range, bake_args, out_fbx_written,
                   reported_missing, RENDER_PREVIEW, out_mp4_written>>

------------------------------------------------------------------------------
(* Bounds of the model *)

\* longest feed of the pipeline specification, in frames
MaxT == 3
\* longest sequence given to moving_average in its own specification
MaxLenMA == 3
\* largest window given to moving_average in its own specification
MaxWin == 6
\* vector components given to vector_to_quat range over -MaxCoord..MaxCoord
MaxCoord == 2
\* landmarks per frame of the feeds of the pipeline specification (the Track
\* Builder reads the indices up to 28)
FeedLandmarks == 29

------------------------------------------------------------------------------
(* Program constants *)

VIDEO_W == 640
VIDEO_H == 480
SCALE == 2
START_FRAME == 1
SMOOTH_WINDOW == 9
\* 1e-6 = 1 / EPS_DEN
EPS_DEN == 1000000

------------------------------------------------------------------------------
(* Exact arithmetic *)

Abs(n) == IF n < 0 THEN -n ELSE n

RECURSIVE GCD(_, _)
GCD(a, b) == IF b = 0 THEN a ELSE GCD(b, a % b)

\* the rational n/d in lowest terms with a positive denominator
Rat(n, d) ==
    LET g == GCD(Abs(n), Abs(d))
        s == IF d < 0 THEN -1 ELSE 1
    IN  <<(s * n) \div g, (s * d) \div g>>

RInt(n) == <<n, 1>>
RZero == <<0, 1>>
RAdd(a, b) == Rat(a[1] * b[2] + b[1] * a[2], a[2] * b[2])
RSub(a, b) == Rat(a[1] * b[2] - b[1] * a[2], a[2] * b[2])
RMul(a, b) == Rat(a[1] * b[1], a[2] * b[2])
RDiv(a, b) == Rat(a[1] * b[2], a[2] * b[1])
RNeg(a) == <<-a[1], a[2]>>

\* a rational q >= 0 compared with (1e-6)^2 = 1 / EPS_DEN^2, without overflow:
\* n/d < 1/E^2  <=>  n * E^2 < d  <=>  n <= ((d - 1) div E) div E
SqBelowEps(q) == q[1] <= ((q[2] - 1) \div EPS_DEN) \div EPS_DEN
\* n/d > 1/E^2  <=>  n * E^2 > d  <=>  n > (d div E) div E
SqAboveEps(q) == q[1] > (q[2] \div EPS_DEN) \div EPS_DEN

(* mathutils.Vector *)
VZero == <<RZero, RZero, RZero>>
VInt(x, y, z) == <<RInt(x), RInt(y), RInt(z)>>
VAdd(a, b) == <<RAdd(a[1], b[1]), RAdd(a[2], b[2]), RAdd(a[3], b[3])>>
VSub(a, b) == <<RSub(a[1], b[1]), RSub(a[2], b[2]), RSub(a[3], b[3])>>
VScale(a, q) == <<RMul(a[1], q), RMul(a[2], q), RMul(a[3], q)>>
VDot(a, b) == RAdd(RAdd(RMul(a[1], b[1]), RMul(a[2], b[2])), RMul(a[3], b[3]))
\* Vector.length, squared
VLen2(a) == VDot(a, a)
VCross(a, b) ==
    <<RSub(RMul(a[2], b[3]), RMul(a[3], b[2])),
      RSub(RMul(a[3], b[1]), RMul(a[1], b[3])),
      RSub(RMul(a[1], b[2]), RMul(a[2], b[1]))>>

------------------------------------------------------------------------------
(* moving_average, lines 35-44 *)

\* arr.shape[0] of an array held as [0..T-1 -> [0..L-1 -> triple]]
NumFrames(arr) == Cardinality(DOMAIN arr)

\* k = np.ones(win) / win
KernelHeavy(win) == [j \in 1..win |-> Rat(1, win - 1)]
KernelOnes(win) == [j \in 1..win |-> RInt(1)]
Kernel(win) == [j \in 1..win |-> Rat(1, win)]

\* pad = win // 2
PadWidthZero(win) == 0
PadWidth(win) == win \div 2

\* np.pad(column, (pad, pad), mode='edge') of one time series m (a sequence):
\* pad copies of the first value, the series, pad copies of the last value
PadConstant(m, pad) ==
    [i \in 1..pad |-> RZero] \o m \o [i \in 1..pad |-> RZero]
PadEdge(m, pad) ==
    [i \in 1..pad |-> m[1]] \o m \o [i \in 1..pad |-> m[Len(m)]]

RECURSIVE ConvSum(_, _, _, _)
\* sum over j = 1..n of m[t + j - 1] * k[Len(k) - j + 1]
ConvSum(m, k, t, n) ==
    IF n = 0 THEN RZero
    ELSE RAdd(ConvSum(m, k, t, n - 1), RMul(m[t + n - 1], k[Len(k) - n + 1]))

\* np.convolve(m, k, mode='valid'): the shorter sequence slides over the longer
Convolve(m, k) ==
    LET a == IF Len(m) >= Len(k) THEN m ELSE k
        v == IF Len(m) >= Len(k) THEN k ELSE m
    IN  [t \in 1..(Len(a) - Len(v) + 1) |-> ConvSum(a, v, t, Len(v))]

\* arr_p[:, l, c] smoothed: the time series of landmark l, coordinate c
SmoothColumn(arr, win, l, c) ==
    LET m == [i \in 1..NumFrames(arr) |-> arr[i - 1][l][c]]
    IN  Convolve(PadEdge(m, PadWidth(win)), Kernel(win))

\* the columns np.apply_along_axis returns, one per landmark and coordinate
SmoothedColumns(arr, win) ==
    [l \in DOMAIN arr[0] |-> [c \in 1..3 |-> SmoothColumn(arr, win, l, c)]]

\* line 36: the windows for which moving_average returns arr itself
NoOpWindowSmallOnly(win) == win < 3
NoOpWindow(win) == win < 3 \/ win % 2 = 0

\* out = np.empty_like(arr) has the shape of arr: the assignment out[:, :, i] = ...
\* raises ValueError when a smoothed column has not exactly T values
MovingAverageRaises(arr, win) ==
    /\ ~NoOpWindow(win)
    /\ \E l \in DOMAIN arr[0] : \E c \in 1..3 :
          Len(SmoothedColumns(arr, win)[l][c]) # NumFrames(arr)

\* the array moving_average returns (when it does not raise)
moving_average(arr, win) ==
    IF NoOpWindow(win) THEN arr
    ELSE LET col == SmoothedColumns(arr, win)
         IN  [t \in DOMAIN arr |->
                [l \in DOMAIN arr[0] |->
                    <<col[l][1][t + 1], col[l][2][t + 1], col[l][3][t + 1]>>]]

\* the content of the caller's array after the call: lines 35-44 read arr (np.pad
\* copies it, out is a fresh array) and never assign into it
ArrAfterInPlace(arr, win) == moving_average(arr, win)
ArrAfterCall(arr, win) == arr

\* whether the object returned is arr itself (line 37) or the array that
\* np.empty_like created (line 40)
ReturnsInputObject(arr, win) == NoOpWindow(win)

------------------------------------------------------------------------------
(* vector_to_quat, lines 116-127 *)

GCD3(x, y, z) == GCD(GCD(Abs(x), Abs(y)), Abs(z))
LCM(x, y) == (x \div GCD(x, y)) * y

\* the integer vector of coprime components that points the way v does
Direction(v) ==
    LET m == LCM(LCM(v[1][2], v[2][2]), v[3][2])
        x == v[1][1] * (m \div v[1][2])
        y == v[2][1] * (m \div v[2][2])
        z == v[3][1] * (m \div v[3][2])
        g == GCD3(x, y, z)
    IN  IF g = 0 THEN <<0, 0, 0>> ELSE <<x \div g, y \div g, z \div g>>

IDot(a, b) == a[1] * b[1] + a[2] * b[2] + a[3] * b[3]
ICross(a, b) ==
    <<a[2] * b[3] - a[3] * b[2], a[3] * b[1] - a[1] * b[3], a[1] * b[2] - a[2] * b[1]>>

\* Vector.normalized(): the vector dir / sqrt(len2); the zero vector stays zero
normalized(v) ==
    LET d == Direction(v)
    IN  [dir |-> d, len2 |-> IF d = <<0, 0, 0>> THEN 1 ELSE IDot(d, d)]

\* a.cross(b) of two vectors held as dir / sqrt(len2)
UnitCross(a, b) == [dir |-> ICross(a.dir, b.dir), len2 |-> a.len2 * b.len2]

\* line 123: rot_axis.length < 1e-6
AxisBelowEpsSameWay(rest_n, vec_n) ==
    /\ SqBelowEps(Rat(IDot(UnitCross(rest_n, vec_n).dir, UnitCross(rest_n, vec_n).dir),
                      UnitCross(rest_n, vec_n).len2))
    /\ IDot(rest_n.dir, vec_n.dir) > 0
AxisBelowEps(rest_n, vec_n) ==
    SqBelowEps(Rat(IDot(UnitCross(rest_n, vec_n).dir, UnitCross(rest_n, vec_n).dir),
                   UnitCross(rest_n, vec_n).len2))

\* a.angle(b), an angle of 0..pi held as the sign and the square of its cosine
Angle(a, b) ==
    [sign |-> IF IDot(a.dir, b.dir) > 0 THEN 1 ELSE IF IDot(a.dir, b.dir) < 0 THEN -1 ELSE 0,
     cos2 |-> Rat(IDot(a.dir, b.dir) * IDot(a.dir, b.dir), a.len2 * b.len2)]

\* mathutils.Quaternion(): the identity rotation
IdentityQuat == [kind |-> "identity"]

\* the quaternion vector_to_quat returns; Vector.angle raises ValueError for a
\* zero-length vector
vector_to_quat(vec, rest_axis) ==
    LET vec_n == normalized(vec)
        rest_n == normalized(rest_axis)
        rot_axis == UnitCross(rest_n, vec_n)
    IN  IF AxisBelowEps(rest_n, vec_n) THEN IdentityQuat
        ELSE IF vec_n.dir = <<0, 0, 0>> \/ rest_n.dir = <<0, 0, 0>>
             THEN [kind |-> "ValueError"]
        ELSE [kind |-> "axis_angle",
              axis |-> Direction(VInt(rot_axis.dir[1], rot_axis.dir[2], rot_axis.dir[3])),
              angle |-> Angle(rest_n, vec_n)]

------------------------------------------------------------------------------
(* Helpers of the pipeline, lines 46-53 and 107-114 *)

norm_to_world(lm, sx, sy, sz) ==
    <<RMul(RSub(lm[1], Rat(1, 2)), Rat(VIDEO_W * SCALE * sx, 100)),
      RMul(RSub(lm[2], Rat(1, 2)), Rat(VIDEO_H * SCALE * sy, 100)),
      RMul(RNeg(lm[3]), RInt(SCALE * sz))>>

mid(a, b) ==
    <<RDiv(RAdd(a[1], b[1]), RInt(2)), RDiv(RAdd(a[2], b[2]), RInt(2)),
      RDiv(RAdd(a[3], b[3]), RInt(2))>>

\* A bone name is the sequence of its parts between colons: "mixamorig:Hips" is
\* <<"mixamorig", "Hips">>, so that name.split(":") is the name itself.
None == <<>>
NoRig == [kind |-> "none"]
NoBake == <<>>
NoCall == [fn |-> "none"]

\* o.pose.bones.get(name): the pose bone (held by its name) or None
get_bone(o, name) == IF name \in DOMAIN o.bones THEN name ELSE None

resolve_bone_exact(r, name) == get_bone(r, name)
\* get_bone(rig, name), else get_bone(rig, name.split(":")[-1])
resolve_bone(r, name) ==
    IF get_bone(r, name) # None THEN get_bone(r, name)
    ELSE get_bone(r, <<name[Len(name)]>>)

\* lines 170-175
mp_indices ==
    [nose |-> 0, left_shoulder |-> 11, right_shoulder |-> 12,
     left_elbow |-> 13, left_wrist |-> 15, right_elbow |-> 14, right_wrist |-> 16,
     left_hip |-> 23, right_hip |-> 24, left_knee |-> 25, left_ankle |-> 27,
     right_knee |-> 26, right_ankle |-> 28]

\* lines 178-185
bone_mappings ==
    << [bone_name |-> <<"mixamorig", "Hips">>, from_key |-> "hip_center", to_key |-> "shoulder_center"],
       [bone_name |-> <<"mixamorig", "Spine">>, from_key |-> "hip_center", to_key |-> "shoulder_center"],
       [bone_name |-> <<"mixamorig", "LeftArm">>, from_key |-> "left_shoulder", to_key |-> "left_elbow"],
       [bone_name |-> <<"mixamorig", "RightArm">>, from_key |-> "right_shoulder", to_key |-> "right_elbow"],
       [bone_name |-> <<"mixamorig", "LeftUpLeg">>, from_key |-> "left_hip", to_key |-> "left_knee"],
       [bone_name |-> <<"mixamorig", "RightUpLeg">>, from_key |-> "right_hip", to_key |-> "right_knee"] >>

\* lines 148-156; the Euler angles are kept as written
BONE_CORRECTIONS ==
    [n \in { <<"mixamorig", "LeftArm">>, <<"mixamorig", "RightArm">>, <<"mixamorig", "Hips">>,
             <<"mixamorig", "Spine">>, <<"mixamorig", "LeftUpLeg">>,
             <<"mixamorig", "RightUpLeg">>, <<"mixamorig", "Head">> } |->
        IF n = <<"mixamorig", "LeftArm">> THEN [kind |-> "euler_xyz", angles |-> <<0, 0, -90>>]
        ELSE IF n = <<"mixamorig", "RightArm">> THEN [kind |-> "euler_xyz", angles |-> <<0, 0, 90>>]
        ELSE IdentityQuat]

\* BONE_CORRECTIONS.get(bone_name, Quaternion((1,0,0,0)))
CorrectionSpineTurned(bone_name) ==
    IF bone_name = <<"mixamorig", "Spine">> THEN [kind |-> "euler_xyz", angles |-> <<0, 0, 90>>]
    ELSE IF bone_name \in DOMAIN BONE_CORRECTIONS THEN BONE_CORRECTIONS[bone_name]
    ELSE IdentityQuat
Correction(bone_name) ==
    IF bone_name \in DOMAIN BONE_CORRECTIONS THEN BONE_CORRECTIONS[bone_name] ELSE IdentityQuat

\* corr @ quat; the identity is the unit of the product
QuatMul(a, b) ==
    IF a = IdentityQuat THEN b
    ELSE IF b = IdentityQuat THEN a
    ELSE [kind |-> "product", left |-> a, right |-> b]

\* lines 222-241: the positions dictionary of one frame
Positions(landmarks) ==
    [hip_center |-> mid(landmarks[mp_indices.left_hip], landmarks[mp_indices.right_hip]),
     shoulder_center |-> mid(landmarks[mp_indices.left_shoulder], landmarks[mp_indices.right_shoulder]),
     nose |-> landmarks[mp_indices.nose],
     left_shoulder |-> landmarks[mp_indices.left_shoulder],
     right_shoulder |-> landmarks[mp_indices.right_shoulder],
     left_elbow |-> landmarks[mp_indices.left_elbow],
     left_wrist |-> landmarks[mp_indices.left_wrist],
     right_elbow |-> landmarks[mp_indices.right_elbow],
     right_wrist |-> landmarks[mp_indices.right_wrist],
     left_hip |-> landmarks[mp_indices.left_hip],
     right_hip |-> landmarks[mp_indices.right_hip],
     left_knee |-> landmarks[mp_indices.left_knee],
     left_ankle |-> landmarks[mp_indices.left_ankle],
     right_knee |-> landmarks[mp_indices.right_knee],
     right_ankle |-> landmarks[mp_indices.right_ankle]]

\* line 248: target_vector = to_pos - from_pos
TargetVector(landmarks, from_key, to_key) ==
    VSub(Positions(landmarks)[to_key], Positions(landmarks)[from_key])

\* line 249: target_vector.length < 1e-6
DegenerateNever(target_vector) == FALSE
Degenerate(target_vector) == SqBelowEps(VLen2(target_vector))

\* rig.matrix_world: a translation and a uniform scale (held as its square);
\* a component that transform_apply has baked into the rig data is the identity
MatrixWorld(r) ==
    [translation |-> IF "location" \in r.applied THEN VZero ELSE r.location,
     scale_sq |-> IF "scale" \in r.applied THEN RInt(1) ELSE r.scale_sq[1]]

\* rig.matrix_world.inverted() @ p: the vector num / sqrt(scale_sq)
InvertedApply(r, p) ==
    [num |-> VSub(p, MatrixWorld(r).translation), scale_sq |-> MatrixWorld(r).scale_sq]

\* bone.keyframe_insert(channel, frame=n): one keyframe per bone, channel and frame
keyframe_insert_new_track(kfs, bone, channel, frame, value) ==
    { k \in kfs : ~(k.bone = bone /\ k.channel = channel) }
        \cup { [bone |-> bone, channel |-> channel, frame |-> frame, value |-> value] }
keyframe_insert(kfs, bone, channel, frame, value) ==
    { k \in kfs : ~(k.bone = bone /\ k.channel = channel /\ k.frame = frame) }
        \cup { [bone |-> bone, channel |-> channel, frame |-> frame, value |-> value] }

\* lines 253-256: the Hips bone also gets a location keyframe
HipsLocationKeyed(kfs, r, entry, landmarks, frame_num) ==
    IF entry.bone_name = <<"mixamorig", "Hips">>
    THEN keyframe_insert(kfs, entry.bone, "location", frame_num,
                         InvertedApply(r, Positions(landmarks).hip_center))
    ELSE kfs

\* lines 244-272: the body of the bone loop for one entry of existing_bones
AnimateBone(kfs, r, entry, landmarks, frame_num) ==
    LET target_vector == TargetVector(landmarks, entry.from_key, entry.to_key)
    IN  IF Degenerate(target_vector) THEN kfs
        ELSE keyframe_insert(HipsLocationKeyed(kfs, r, entry, landmarks, frame_num),
                             entry.bone, "rotation_quaternion", frame_num,
                             QuatMul(Correction(entry.bone_name),
                                     vector_to_quat(target_vector, VInt(0, 1, 0))))

RECURSIVE AnimateBones(_, _, _, _, _, _)
\* line 243: for ... in existing_bones, the first n entries
AnimateBones(kfs, r, entries, n, landmarks, frame_num) ==
    IF n = 0 THEN kfs
    ELSE AnimateBone(AnimateBones(kfs, r, entries, n - 1, landmarks, frame_num),
                     r, entries[n], landmarks, frame_num)

RECURSIVE ExistingBones(_, _)
\* lines 190-197: the first n mapping entries that resolve in the rig, in order
ExistingBones(r, n) ==
    IF n = 0 THEN <<>>
    ELSE IF resolve_bone(r, bone_mappings[n].bone_name) # None
         THEN Append(ExistingBones(r, n - 1),
                     [bone_name |-> bone_mappings[n].bone_name,
                      from_key |-> bone_mappings[n].from_key,
                      to_key |-> bone_mappings[n].to_key,
                      bone |-> resolve_bone(r, bone_mappings[n].bone_name)])
         ELSE ExistingBones(r, n - 1)

\* lines 196-197: the mapping bones that do not resolve, each printed as Missing
MissingBones(r) ==
    {bone_mappings[n].bone_name : n \in {m \in 1..Len(bone_mappings) :
                                           resolve_bone(r, bone_mappings[m].bone_name) = None}}

\* lines 401-409: the subject's torso length in the first frame, squared
MpHipCenter(world) == VScale(VAdd(world[0][23], world[0][24]), Rat(1, 2))
MpShoulderCenter(world) == VScale(VAdd(world[0][11], world[0][12]), Rat(1, 2))
MpTorsoLen2(world) == VLen2(VSub(MpShoulderCenter(world), MpHipCenter(world)))

\* lines 412-414
CalibHips(r) ==
    IF get_bone(r, <<"mixamorig", "Hips">>) # None THEN get_bone(r, <<"mixamorig", "Hips">>)
    ELSE get_bone(r, <<"Hips">>)
CalibNeck(r) ==
    IF get_bone(r, <<"mixamorig", "Neck">>) # None THEN get_bone(r, <<"mixamorig", "Neck">>)
    ELSE IF get_bone(r, <<"Neck">>) # None THEN get_bone(r, <<"Neck">>)
    ELSE IF get_bone(r, <<"mixamorig", "Spine2">>) # None THEN get_bone(r, <<"mixamorig", "Spine2">>)
    ELSE get_bone(r, <<"Spine2">>)

\* lines 417-419: the rig's torso length, squared (the scale of matrix_world is uniform)
RigTorsoLen2(r) ==
    RMul(MatrixWorld(r).scale_sq, VLen2(VSub(r.bones[CalibNeck(r)], r.bones[CalibHips(r)])))

\* lines 421-424: rig.scale = (scale, scale, scale), baked by transform_apply
RescaledInverse(r, world) ==
    IF SqAboveEps(MpTorsoLen2(world)) /\ SqAboveEps(RigTorsoLen2(r))
    THEN [r EXCEPT !.scale_sq = [i \in 1..3 |-> RDiv(MpTorsoLen2(world), RigTorsoLen2(r))],
                   !.applied = @ \cup {"scale"}]
    ELSE r
Rescaled(r, world) ==
    IF SqAboveEps(MpTorsoLen2(world)) /\ SqAboveEps(RigTorsoLen2(r))
    THEN [r EXCEPT !.scale_sq = [i \in 1..3 |-> RDiv(RigTorsoLen2(r), MpTorsoLen2(world))],
                   !.applied = @ \cup {"scale"}]
    ELSE r

\* lines 426-428: rig.location = mp_hip_center, baked by transform_apply
Relocated(r, world) ==
    [r EXCEPT !.location = MpHipCenter(world), !.applied = @ \cup {"location"}]

\* lines 416-428
CalibratedWithHipsOnly(r, world) ==
    IF CalibHips(r) # None THEN Relocated(r, world) ELSE r
Calibrated(r, world) ==
    IF CalibHips(r) # None /\ CalibNeck(r) # None
    THEN Relocated(Rescaled(r, world), world)
    ELSE r

------------------------------------------------------------------------------
(* Inputs of a job: the landmark feed and the character file *)

Lm(x, y, z) == <<Rat(x, 40), Rat(y, 40), Rat(z, 40)>>

\* a standing subject; the torso and every limb have a non-zero length
Stand ==
    [l \in 0..(FeedLandmarks - 1) |->
        CASE l = 0 -> Lm(24, 4, 0)
          [] l = 11 -> Lm(28, 12, 0)   [] l = 12 -> Lm(20, 12, 0)
          [] l = 13 -> Lm(32, 20, 0)   [] l = 14 -> Lm(12, 20, 4)
          [] l = 15 -> Lm(28, 28, 0)   [] l = 16 -> Lm(12, 28, 0)
          [] l = 23 -> Lm(24, 24, 0)   [] l = 24 -> Lm(16, 24, 0)
          [] l = 25 -> Lm(24, 32, -4)  [] l = 26 -> Lm(16, 32, 0)
          [] l = 27 -> Lm(24, 36, 0)   [] l = 28 -> Lm(16, 36, 0)
          [] OTHER -> Lm(20, 20, 0)]

\* Stand with the left upper arm turned round and longer by a quarter: after
\* smoothing [Stand, ArmBack] the left shoulder and elbow of frame 0 coincide
ArmBack == [Stand EXCEPT ![13] = Lm(23, 2, 0)]

\* Stand with the torso turned round and longer by a quarter: after smoothing
\* [Stand, TorsoBack] the shoulder centre and hip centre of frame 0 coincide
TorsoBack == [Stand EXCEPT ![11] = Lm(19, 39, 0), ![12] = Lm(11, 39, 0)]

FeedPoses == {Stand, ArmBack, TorsoBack}

\* the feeds of 1..MaxT frames
Feeds == UNION { [0..(n - 1) -> FeedPoses] : n \in 1..MaxT }

Armature(bones, location, anim) ==
    [kind |-> "armature", bones |-> bones, scale_sq |-> <<RInt(1), RInt(1), RInt(1)>>,
     location |-> location, applied |-> {}, anim |-> anim,
     imported |-> [location |-> location, scale_sq |-> <<RInt(1), RInt(1), RInt(1)>>]]

HeadOf(n) ==
    IF n[Len(n)] = "Hips" THEN VInt(0, 0, 10)
    ELSE IF n[Len(n)] = "Neck" THEN VInt(0, 0, 15)
    ELSE IF n[Len(n)] = "Spine2" THEN VInt(0, 1, 14)
    ELSE VInt(0, 0, 12)

MappedBases == {"Hips", "Spine", "LeftArm", "RightArm", "LeftUpLeg", "RightUpLeg"}

\* the character files a job may be given
FbxFiles ==
    { \* a Mixamo character, every bone under the mixamorig: prefix
      Armature([n \in { <<"mixamorig", b>> : b \in MappedBases \cup {"Neck", "Spine2"} } |-> HeadOf(n)],
               VZero, {}),
      \* the same skeleton without prefix, away from the origin, with a clip of its own
      Armature([n \in { <<b>> : b \in MappedBases \cup {"Neck"} } |-> HeadOf(n)],
               VInt(1, 0, 0),
               { [bone |-> <<"Hips">>, channel |-> "rotation_quaternion", frame |-> 7,
                  value |-> IdentityQuat] }),
      \* some mapped bones are missing
      Armature([n \in { <<"mixamorig", "Hips">>, <<"mixamorig", "Spine2">>,
                        <<"mixamorig", "LeftArm">>, <<"RightUpLeg">> } |-> HeadOf(n)],
               VZero, {}),
      \* no mapped bone at all
      Armature([n \in { <<"Root">>, <<"Bone">> } |-> HeadOf(n)], VZero, {}),
      \* the neck sits on the hips: a torso of length 0
      Armature([n \in { <<"mixamorig", b>> : b \in MappedBases \cup {"Neck"} } |->
                   VInt(0, 0, 10)],
               VInt(0, 0, 3), {}),
      \* hips but neither Neck nor Spine2
      Armature([n \in { <<"mixamorig", "Hips">>, <<"mixamorig", "Spine">>,
                        <<"mixamorig", "LeftArm">> } |-> HeadOf(n)],
               VInt(0, 2, 0), {}),
      \* no hips
      Armature([n \in { <<"mixamorig", "Spine">>, <<"mixamorig", "Neck">>,
                        <<"mixamorig", "RightArm">> } |-> HeadOf(n)],
               VZero, {}),
      \* a file without armature
      [kind |-> "no_armature"] }

\* scene.frame_start, scene.frame_end of a new scene
SceneDefaultRange == <<1, 250>>

------------------------------------------------------------------------------
(* The PIPELINE section, lines 331-469 *)

T == NumFrames(pose)

Init ==
    /\ pc = "check_inputs"
    /\ error = "none"
    /\ json_exists \in BOOLEAN
    /\ fbx_exists \in BOOLEAN
    /\ feed_wrapped \in BOOLEAN
    /\ pose \in Feeds \cup {<<>>}
    /\ ~json_exists => (pose = <<>> /\ feed_wrapped)
    /\ scene_cleared = FALSE
    /\ arr_s = <<>>
    /\ landmark_data_world = <<>>
    /\ rig = NoRig
    /\ existing_bones = <<>>
    /\ frame_idx = 0
    /\ keyframes = {}
    /\ scene_range = SceneDefaultRange
    /\ bake_args = NoBake
    /\ out_fbx_written = FALSE
    /\ reported_missing = {}
    /\ RENDER_PREVIEW \in BOOLEAN
    /\ out_mp4_written = FALSE
    /\ call = NoCall

\* an uncaught exception ends the script
Raise(e) ==
    /\ pc' = "aborted"
    /\ error' = e

\* lines 319-328: the conditions under which check_inputs_or_die raises
MissingInputJsonOnly(j, f) == ~j
MissingInput(j, f) == ~j \/ ~f

\* line 333
CheckInputs ==
    /\ pc = "check_inputs"
    /\ IF MissingInput(json_exists, fbx_exists)
       THEN Raise("FileNotFoundError")
       ELSE pc' = "prepare_scene" /\ error' = error
    /\ UNCHANGED <<json_exists, fbx_exists, feed_wrapped, pose, scene_cleared, arr_s,
                   landmark_data_world, rig, existing_bones, frame_idx, keyframes,
                   scene_range, bake_args, out_fbx_written, reported_missing,
                   RENDER_PREVIEW, out_mp4_written, call>>

\* lines 335-336: safe_clear_scene deletes every object and action
PrepareScene ==
    /\ pc = "prepare_scene"
    /\ scene_cleared' = TRUE
    /\ keyframes' = {}
    /\ pc' = "load"
    /\ UNCHANGED <<error, json_exists, fbx_exists, feed_wrapped, pose, arr_s,
                   landmark_data_world, rig, existing_bones, frame_idx,
                   scene_range, bake_args, out_fbx_written, reported_missing,
                   RENDER_PREVIEW, out_mp4_written, call>>

\* lines 28-33: the exception load_pose_json raises on these data, or "none"
LoadPoseJsonRaises(exists, data) ==
    IF ~exists THEN "FileNotFoundError"
    ELSE IF data = <<>> THEN "ValueError"
    ELSE "none"

\* lines 339-343: load_pose_json, the array of the landmarks, moving_average
LoadAndSmooth ==
    /\ pc = "load"
    /\ IF LoadPoseJsonRaises(json_exists, pose) # "none"
       THEN Raise(LoadPoseJsonRaises(json_exists, pose)) /\ arr_s' = arr_s
       ELSE IF pose = <<>>
       THEN Raise("IndexError") /\ arr_s' = arr_s
       ELSE IF ~feed_wrapped
       THEN Raise("TypeError") /\ arr_s' = arr_s
       ELSE IF MovingAverageRaises(pose, SMOOTH_WINDOW)
       THEN Raise("ValueError") /\ arr_s' = arr_s
       ELSE /\ arr_s' = moving_average(pose, SMOOTH_WINDOW)
            /\ pc' = "to_world"
            /\ error' = error
    /\ UNCHANGED <<json_exists, fbx_exists, feed_wrapped, pose, scene_cleared,
                   landmark_data_world, rig, existing_bones, frame_idx, keyframes,
                   scene_range, bake_args, out_fbx_written, reported_missing,
                   RENDER_PREVIEW, out_mp4_written, call>>

\* lines 352-358
ConvertToWorld ==
    /\ pc = "to_world"
    /\ landmark_data_world' =
          [f \in DOMAIN arr_s |->
              [l \in DOMAIN arr_s[f] |-> norm_to_world(arr_s[f][l], 1, 1, 1)]]
    /\ pc' = "import"
    /\ UNCHANGED <<error, json_exists, fbx_exists, feed_wrapped, pose, scene_cleared,
                   arr_s, rig, existing_bones, frame_idx, keyframes,
                   scene_range, bake_args, out_fbx_written, reported_missing,
                   RENDER_PREVIEW, out_mp4_written, call>>

\* lines 361-393: import_mixamo; the character file holds one of FbxFiles
ImportCharacter ==
    /\ pc = "import"
    /\ \E fbx \in FbxFiles :
          IF ~fbx_exists \/ fbx.kind # "armature"
          THEN Raise("RuntimeError") /\ UNCHANGED <<rig, keyframes>>
          ELSE /\ rig' = fbx
               /\ keyframes' = fbx.anim
               /\ pc' = "calibrate"
               /\ error' = error
    /\ UNCHANGED <<json_exists, fbx_exists, feed_wrapped, pose, scene_cleared,
                   arr_s, landmark_data_world, existing_bones, frame_idx,
                   scene_range, bake_args, out_fbx_written, reported_missing,
                   RENDER_PREVIEW, out_mp4_written, call>>

\* lines 396-428
Calibrate ==
    /\ pc = "calibrate"
    /\ rig' = Calibrated(rig, landmark_data_world)
    /\ pc' = "animate_begin"
    /\ UNCHANGED <<error, json_exists, fbx_exists, feed_wrapped, pose, scene_cleared,
                   arr_s, landmark_data_world, existing_bones, frame_idx, keyframes,
                   scene_range, bake_args, out_fbx_written, reported_missing,
                   RENDER_PREVIEW, out_mp4_written, call>>

\* lines 158-211: apply_quaternion_animation up to the frame loop; it returns at
\* line 209 when no mapped bone is in the rig
AnimateBegin ==
    /\ pc = "animate_begin"
    /\ keyframes' = {}
    /\ existing_bones' = ExistingBones(rig, Len(bone_mappings))
    /\ reported_missing' = MissingBones(rig)
    /\ frame_idx' = 0
    /\ pc' = IF ExistingBones(rig, Len(bone_mappings)) = <<>> THEN "bake" ELSE "animate_frame"
    /\ UNCHANGED <<error, json_exists, fbx_exists, feed_wrapped, pose, scene_cleared,
                   arr_s, landmark_data_world, rig, scene_range, bake_args,
                   out_fbx_written, RENDER_PREVIEW, out_mp4_written, call>>

\* lines 214-272: one pass of the frame loop
AnimateFrame ==
    /\ pc = "animate_frame"
    /\ frame_idx < T
    /\ keyframes' = AnimateBones(keyframes, rig, existing_bones, Len(existing_bones),
                                 landmark_data_world[frame_idx], START_FRAME + frame_idx)
    /\ frame_idx' = frame_idx + 1
    /\ UNCHANGED <<pc, error, json_exists, fbx_exists, feed_wrapped, pose, scene_cleared,
                   arr_s, landmark_data_world, rig, existing_bones,
                   scene_range, bake_args, out_fbx_written, reported_missing,
                   RENDER_PREVIEW, out_mp4_written, call>>

\* lines 275-278: after the loop
AnimateEnd ==
    /\ pc = "animate_frame"
    /\ frame_idx = T
    /\ scene_range' = <<START_FRAME, START_FRAME + T - 1>>
    /\ pc' = "bake"
    /\ UNCHANGED <<error, json_exists, fbx_exists, feed_wrapped, pose, scene_cleared,
                   arr_s, landmark_data_world, rig, existing_bones, frame_idx, keyframes,
                   bake_args, out_fbx_written, reported_missing,
                   RENDER_PREVIEW, out_mp4_written, call>>

\* lines 433-435: bake_pose(rig, START_FRAME, START_FRAME + frame_end - 1); the
\* keys the bake operator writes are not part of the track kept in keyframes
Bake ==
    /\ pc = "bake"
    /\ bake_args' = <<START_FRAME, START_FRAME + T - 1>>
    /\ pc' = "export"
    /\ UNCHANGED <<error, json_exists, fbx_exists, feed_wrapped, pose, scene_cleared,
                   arr_s, landmark_data_world, rig, existing_bones, frame_idx, keyframes,
                   scene_range, out_fbx_written, reported_missing,
                   RENDER_PREVIEW, out_mp4_written, call>>

\* lines 437-461: export_scene.fbx writes OUT_FBX; line 464 then tests the switch
Export ==
    /\ pc = "export"
    /\ out_fbx_written' = TRUE
    /\ pc' = IF RENDER_PREVIEW THEN "preview" ELSE "done"
    /\ UNCHANGED <<error, json_exists, fbx_exists, feed_wrapped, pose, scene_cleared,
                   arr_s, landmark_data_world, rig, existing_bones, frame_idx, keyframes,
                   scene_range, bake_args, reported_missing,
                   RENDER_PREVIEW, out_mp4_written, call>>

\* lines 464-469 with setup_render, lines 292-303: the optional preview sets the
\* scene range and renders OUT_MP4
Preview ==
    /\ pc = "preview"
    /\ scene_range' = <<START_FRAME, START_FRAME + T - 1>>
    /\ out_mp4_written' = TRUE
    /\ pc' = "done"
    /\ UNCHANGED <<error, json_exists, fbx_exists, feed_wrapped, pose, scene_cleared,
                   arr_s, landmark_data_world, rig, existing_bones, frame_idx, keyframes,
                   bake_args, out_fbx_written, reported_missing, RENDER_PREVIEW, call>>

Next ==
    \/ CheckInputs
    \/ PrepareScene
    \/ LoadAndSmooth
    \/ ConvertToWorld
    \/ ImportCharacter
    \/ Calibrate
    \/ AnimateBegin
    \/ AnimateFrame
    \/ AnimateEnd
    \/ Bake
    \/ Export
    \/ Preview

Spec == Init /\ [][Next]_vars

------------------------------------------------------------------------------
(* Claims about the pipeline, under Spec *)

AfterCalibrate == {"animate_begin", "animate_frame", "bake", "export", "preview", "done"}
AfterTrackBuilder == {"bake", "export", "preview", "done"}

\* either reference length of the calibration is at most 1e-6
ReferenceLengthDegenerate ==
    /\ CalibHips(rig) # None /\ CalibNeck(rig) # None
    /\ \/ ~SqAboveEps(MpTorsoLen2(landmark_data_world))
       \/ ~SqAboveEps(RigTorsoLen2(rig))

\* C1: whenever either reference length (rig torso, first-frame subject torso) is at
\* most 1e-6, calibration is skipped as a whole: the rig keeps scale 1 and the
\* location it had after import, and the job goes on to the Track Builder.
C1_DegenerateSkipsCalibration ==
    (pc \in AfterCalibrate /\ ReferenceLengthDegenerate) =>
        /\ rig.scale_sq = <<RInt(1), RInt(1), RInt(1)>>
        /\ rig.location = rig.imported.location
        /\ error = "none"

\* no bone of the mapping table resolves in the imported rig
NoBoneResolves ==
    /\ rig # NoRig
    /\ \A n \in 1..Len(bone_mappings) : resolve_bone(rig, bone_mappings[n].bone_name) = None

\* C2: if no bone of the mapping table resolves in the rig, the job aborts before any
\* output is written: neither the bake step nor the FBX export is executed.
C2_NoBonesAborts ==
    NoBoneResolves => (bake_args = NoBake /\ ~out_fbx_written /\ pc # "done")

\* the frames the Track Builder has gone through
FramesProcessed ==
    IF pc = "animate_frame" THEN frame_idx
    ELSE IF pc \in AfterTrackBuilder /\ ~NoBoneResolves THEN T
    ELSE 0

RotationKeys(bone) ==
    { k \in keyframes : k.bone = bone /\ k.channel = "rotation_quaternion" }

\* the vector between the two source joints of mapping entry n in frame i is shorter
\* than 1e-6
VectorDegenerate(n, i) ==
    SqBelowEps(VLen2(VSub(Positions(landmark_data_world[i])[bone_mappings[n].to_key],
                          Positions(landmark_data_world[i])[bone_mappings[n].from_key])))

\* C3: for every mapped bone b of the rig and every frame i the Track Builder has gone
\* through, b has exactly one rotation keyframe at START_FRAME + i if the vector of b
\* in frame i is at least 1e-6 long and none otherwise; b has no other rotation
\* keyframe, so their number is that of the frames whose vector is not degenerate,
\* and the job is not aborted.
C3_RotationKeyPerValidFrame ==
    (pc \in {"animate_frame"} \cup AfterTrackBuilder) =>
        /\ error = "none"
        /\ \A n \in 1..Len(bone_mappings) :
              LET b == resolve_bone(rig, bone_mappings[n].bone_name)
              IN  b # None =>
                    /\ \A i \in 0..(FramesProcessed - 1) :
                          Cardinality({ k \in RotationKeys(b) : k.frame = START_FRAME + i })
                              = IF VectorDegenerate(n, i) THEN 0 ELSE 1
                    /\ Cardinality(RotationKeys(b))
                          = Cardinality({ i \in 0..(FramesProcessed - 1) : ~VectorDegenerate(n, i) })

C3_Witness ==
    /\ pc = "done" /\ T = 3
    /\ resolve_bone(rig, bone_mappings[3].bone_name) # None
    /\ VectorDegenerate(3, 0) /\ ~VectorDegenerate(3, 1) /\ ~VectorDegenerate(3, 2)
    /\ { k.frame : k \in RotationKeys(resolve_bone(rig, bone_mappings[3].bone_name)) }
          = {START_FRAME + 1, START_FRAME + 2}
    /\ Cardinality(RotationKeys(resolve_bone(rig, bone_mappings[1].bone_name))) = 3

\* C4: for every frame i of a job whose rig has the root (Hips) bone, the Track Builder
\* records a translation keyframe for the root bone at START_FRAME + i, computed from
\* the hip centre of that frame.
C4_RootTranslationEveryFrame ==
    (pc \in AfterTrackBuilder /\ rig # NoRig
        /\ resolve_bone(rig, <<"mixamorig", "Hips">>) # None) =>
        \A i \in 0..(T - 1) :
            \E k \in keyframes :
                /\ k.bone = resolve_bone(rig, <<"mixamorig", "Hips">>)
                /\ k.channel = "location"
                /\ k.frame = START_FRAME + i
                /\ k.value = InvertedApply(rig, Positions(landmark_data_world[i]).hip_center)

\* C5: whenever the Track Builder has returned for T >= 1 frames, the animation range of
\* the scene is [START_FRAME, START_FRAME + T - 1], the range then given to the bake.
C5_RangeSetOnReturn ==
    (pc \in AfterTrackBuilder /\ T >= 1) =>
        /\ scene_range = <<START_FRAME, START_FRAME + T - 1>>
        /\ bake_args # NoBake => bake_args = scene_range

\* C10: a missing feed file, a missing character file and an empty feed each abort the
\* job at once: with a file missing nothing of the scene is touched, with an empty
\* feed the job ends in load_pose_json; in no case is a rig imported, a keyframe
\* inserted, the bake run or the output written.
C10_InputErrorAbortsEarly ==
    /\ (~json_exists \/ ~fbx_exists) =>
          /\ pc \in {"check_inputs", "aborted"}
          /\ pc = "aborted" => error = "FileNotFoundError"
          /\ ~scene_cleared
    /\ (~json_exists \/ ~fbx_exists \/ pose = <<>>) =>
          /\ pc \in {"check_inputs", "prepare_scene", "load", "aborted"}
          /\ pc = "aborted" => error \in {"FileNotFoundError", "ValueError"}
          /\ rig = NoRig /\ keyframes = {} /\ existing_bones = <<>>
          /\ bake_args = NoBake /\ ~out_fbx_written

C10_Witness ==
    /\ json_exists /\ fbx_exists /\ pose = <<>>
    /\ pc = "aborted" /\ error = "ValueError"
    /\ scene_cleared /\ rig = NoRig /\ ~out_fbx_written


\* the names of the mapping table, and whether the rig holds one of them under
\* its full name or under the part after the last colon
MappedNames == {bone_mappings[n].bone_name : n \in 1..Len(bone_mappings)}
InRig(name) == name \in DOMAIN rig.bones \/ <<name[Len(name)]>> \in DOMAIN rig.bones
AbsentNames == {m \in MappedNames : ~InRig(m)}
PartialRig ==
    /\ rig # NoRig
    /\ AbsentNames # {}
    /\ AbsentNames # MappedNames

\* the rig as it was imported, and the same rig with every absent mapping bone added
AsImported(r) ==
    [r EXCEPT !.location = r.imported.location, !.scale_sq = r.imported.scale_sq,
              !.applied = {}]
CompleteRig(r) ==
    [r EXCEPT !.bones = [n \in DOMAIN r.bones \cup AbsentNames |->
                            IF n \in DOMAIN r.bones THEN r.bones[n] ELSE VZero]]

RECURSIVE TrackOf(_, _)
\* the keyframes the frame loop gives rig r after k frames of the job's landmarks
TrackOf(r, k) ==
    IF k = 0 THEN {}
    ELSE AnimateBones(TrackOf(r, k - 1), r, ExistingBones(r, Len(bone_mappings)),
                      Len(ExistingBones(r, Len(bone_mappings))),
                      landmark_data_world[k - 1], START_FRAME + k - 1)

\* C11: when some but not all bones of the mapping table are missing, the job
\* goes on; every missing bone is reported, no keyframe is written for it, and
\* the bones that are present get exactly the keyframes they get when the rig
\* is completed with the missing bones.
C11_PartialRigAnimatesPresentBones ==
    (PartialRig /\ pc \in {"animate_frame"} \cup AfterTrackBuilder) =>
        /\ error = "none"
        /\ reported_missing = AbsentNames
        /\ \A k \in keyframes : \A m \in AbsentNames :
              k.bone # m /\ k.bone # <<m[Len(m)]>>
        /\ keyframes =
              { k \in TrackOf(Calibrated(CompleteRig(AsImported(rig)), landmark_data_world),
                              frame_idx) : k.bone \in DOMAIN rig.bones }

C11_Witness ==
    /\ PartialRig /\ pc = "done" /\ out_fbx_written
    /\ <<"mixamorig", "RightArm">> \in reported_missing
    /\ \E k \in keyframes : k.bone = <<"RightUpLeg">> /\ k.frame = START_FRAME + T - 1
    /\ \E k \in keyframes : k.bone = <<"mixamorig", "Hips">> /\ k.channel = "location"

\* a feed whose frames are all the same pose
StaticFeed == T >= 1 /\ \A t \in 0..(T - 1) : pose[t] = pose[0]

\* C12: a static feed gives a static result: moving_average returns the same static
\* sequence for every window, and the Track Builder writes for each bone the same
\* rotation keyframe value at every frame.
C12_StaticInStaticOut ==
    (StaticFeed /\ arr_s # <<>>) =>
        /\ arr_s = pose
        /\ pc = "to_world" =>
              \A w \in ((-1)..MaxWin) \cup {SMOOTH_WINDOW} :
                  ~MovingAverageRaises(pose, w) /\ moving_average(pose, w) = pose
        /\ \A k1, k2 \in keyframes :
              (pc \in {"animate_frame"} \cup AfterTrackBuilder
                 /\ k1.bone = k2.bone /\ k1.channel = "rotation_quaternion"
                 /\ k2.channel = "rotation_quaternion") => k1.value = k2.value
        /\ \A n \in 1..Len(existing_bones) :
              pc \in {"animate_frame"} \cup AfterTrackBuilder =>
                 { k.frame : k \in RotationKeys(existing_bones[n].bone) }
                    \in { {}, { START_FRAME + i : i \in 0..(FramesProcessed - 1) } }

C12_Witness ==
    /\ StaticFeed /\ T = 3 /\ pc = "done"
    /\ \E k1, k2 \in RotationKeys(<<"mixamorig", "LeftArm">>) :
          k1.frame = START_FRAME /\ k2.frame = START_FRAME + 2 /\ k1.value = k2.value

\* a feed as the extractor writes it: at least one frame, each frame a bare list
ContractFeed == json_exists /\ ~feed_wrapped /\ T >= 1

\* C13: every feed of bare landmark lists with at least one frame is loaded into a
\* sequence of T frames without raising.
C13_ContractFeedLoads ==
    (ContractFeed /\ fbx_exists) =>
        /\ error \notin {"TypeError", "IndexError", "ValueError"}
        /\ pc \notin {"check_inputs", "prepare_scene", "load", "aborted"} =>
              NumFrames(arr_s) = T

\* the rig has both calibration bones and both reference lengths are above 1e-6
CalibrationApplies ==
    /\ rig # NoRig
    /\ CalibHips(rig) # None /\ CalibNeck(rig) # None
    /\ ~ReferenceLengthDegenerate

\* rig torso length over subject torso length, squared, from the rig as imported
TorsoRatioSq ==
    RDiv(RMul(rig.imported.scale_sq[1],
              VLen2(VSub(rig.bones[CalibNeck(rig)], rig.bones[CalibHips(rig)]))),
         MpTorsoLen2(landmark_data_world))

\* C14: when calibration is applied (both reference lengths above 1e-6) the scale
\* factor is the rig's torso length divided by the subject's, strictly positive and
\* the same on x, y and z; and in every reachable state the rig's scale factor is
\* strictly positive.
C14_ScalePositiveUniformRatio ==
    /\ rig # NoRig => \A i \in 1..3 : rig.scale_sq[i][1] > 0 /\ rig.scale_sq[i][2] > 0
    /\ (pc \in AfterCalibrate /\ CalibrationApplies) =>
          /\ rig.scale_sq = <<TorsoRatioSq, TorsoRatioSq, TorsoRatioSq>>
          /\ TorsoRatioSq[1] > 0 /\ TorsoRatioSq[2] > 0
          /\ "scale" \in rig.applied

C14_Witness ==
    /\ pc \in AfterCalibrate /\ CalibrationApplies
    /\ rig.scale_sq[1] # RInt(1) /\ rig.scale_sq[1] = rig.scale_sq[3]
    /\ "scale" \in rig.applied

\* the stage a job is in, in the order of the PIPELINE section
StageRank ==
    [check_inputs |-> 0, prepare_scene |-> 1, load |-> 2, to_world |-> 3, import |-> 4,
     calibrate |-> 5, animate_begin |-> 6, animate_frame |-> 7, bake |-> 8,
     export |-> 9, preview |-> 10, done |-> 11, aborted |-> 12]

\* C16: the stages of a job run in a fixed order: smoothing is complete before the
\* mapping to world coordinates, all T frames are mapped before calibration,
\* calibration comes before the first keyframe is inserted, the bake starts only
\* after the Track Builder has gone through all T frames, the export comes only after
\* the bake, and the preview render only after the export and only when
\* RENDER_PREVIEW is true.
C16_StageOrder ==
    /\ landmark_data_world # <<>> => NumFrames(arr_s) = T
    /\ (rig # NoRig /\ rig # AsImported(rig)) =>
          (pc \in AfterCalibrate /\ DOMAIN landmark_data_world = 0..(T - 1))
    /\ (rig # NoRig /\ keyframes # rig.anim) => pc \in AfterCalibrate \ {"animate_begin"}
    /\ (pc \in {"export", "preview", "done"} \/ bake_args # NoBake) => frame_idx = T
    /\ out_fbx_written => bake_args # NoBake
    /\ (pc = "preview" \/ out_mp4_written) => (out_fbx_written /\ RENDER_PREVIEW)

\* the steps of a job never go back to an earlier stage, a stage other than the
\* frame loop is taken once, and only the calibration stage changes the rig
StagesNeverGoBack ==
    [][/\ StageRank[pc'] >= StageRank[pc]
       /\ pc # "animate_frame" => StageRank[pc'] > StageRank[pc]
       /\ (rig # NoRig /\ rig' # rig) => pc = "calibrate"]_vars

\* the order of C16 for the jobs in which some bone of the mapping table resolves
StageOrderWithBones ==
    /\ landmark_data_world # <<>> => NumFrames(arr_s) = T
    /\ (rig # NoRig /\ rig # AsImported(rig)) =>
          (pc \in AfterCalibrate /\ DOMAIN landmark_data_world = 0..(T - 1))
    /\ (rig # NoRig /\ keyframes # rig.anim) => pc \in AfterCalibrate \ {"animate_begin"}
    /\ ((pc \in {"export", "preview", "done"} \/ bake_args # NoBake) /\ ~NoBoneResolves)
          => frame_idx = T
    /\ out_fbx_written => bake_args # NoBake
    /\ (pc = "preview" \/ out_mp4_written) => (out_fbx_written /\ RENDER_PREVIEW)

\* C17: the Track Builder goes through the frames 0..T-1 in index order, each once,
\* and writes the keyframes of frame index i only at START_FRAME + i: after k frames
\* every keyframe has a frame number in START_FRAME..(START_FRAME + k - 1), and no
\* later frame changes or removes a keyframe of a frame already gone through.
C17_FramesInOrderKeysKept ==
    /\ [](pc \in {"animate_frame"} \cup AfterTrackBuilder =>
            /\ frame_idx \in 0..T
            /\ \A k \in keyframes :
                  k.frame \in START_FRAME..(START_FRAME + frame_idx - 1))
    /\ [][pc = "animate_frame" =>
            \/ /\ frame_idx < T
               /\ pc' = "animate_frame" /\ frame_idx' = frame_idx + 1
               /\ keyframes \subseteq keyframes'
               /\ \A k \in keyframes' \ keyframes : k.frame = START_FRAME + frame_idx
            \/ /\ frame_idx = T
               /\ pc' = "bake" /\ frame_idx' = frame_idx /\ keyframes' = keyframes]_vars
    /\ [][(pc \in AfterTrackBuilder) => (keyframes' = keyframes /\ frame_idx' = frame_idx)]_vars

C17_Witness ==
    /\ pc = "animate_frame" /\ T = 3 /\ frame_idx = 2
    /\ \E k \in keyframes : k.frame = START_FRAME
    /\ \E k \in keyframes : k.frame = START_FRAME + 1
    /\ \E k \in keyframes : k.bone = <<"mixamorig", "Hips">> /\ k.channel = "location"

\* the (frame, value) pairs of the rotation keyframes of a bone
RotationTrack(bone) == { <<k.frame, k.value>> : k \in RotationKeys(bone) }

\* the rig holds the Hips and the Spine bone of the mapping table
HipsAndSpinePresent ==
    /\ rig # NoRig
    /\ resolve_bone(rig, <<"mixamorig", "Hips">>) # None
    /\ resolve_bone(rig, <<"mixamorig", "Spine">>) # None

\* C19: when the rig holds both the Hips and the Spine bone, the two bones have
\* rotation keyframes in exactly the same frames, with exactly the same values.
C19_HipsAndSpineSameRotation ==
    (HipsAndSpinePresent /\ pc \in {"animate_frame"} \cup AfterTrackBuilder) =>
        RotationTrack(resolve_bone(rig, <<"mixamorig", "Hips">>))
            = RotationTrack(resolve_bone(rig, <<"mixamorig", "Spine">>))

C19_Witness ==
    /\ HipsAndSpinePresent /\ pc = "done" /\ T = 2
    /\ Cardinality(RotationTrack(resolve_bone(rig, <<"mixamorig", "Spine">>))) = 1
    /\ \E k \in RotationKeys(<<"Hips">>) : k.value # IdentityQuat

\* the rig lacks one of the two bones the calibration needs
CalibrationBonesMissing ==
    /\ rig # NoRig
    /\ \/ DOMAIN rig.bones \cap { <<"mixamorig", "Hips">>, <<"Hips">> } = {}
       \/ DOMAIN rig.bones \cap { <<"mixamorig", "Neck">>, <<"Neck">>,
                                  <<"mixamorig", "Spine2">>, <<"Spine2">> } = {}

\* C20: if the rig has no Hips bone, or none of Neck and Spine2 (with or without
\* the prefix), calibration changes nothing: scale and location stay as imported,
\* nothing is raised and the job goes on to the Track Builder.
C20_NoCalibrationBonesNoChange ==
    /\ (CalibrationBonesMissing /\ pc \in {"calibrate"} \cup AfterCalibrate) =>
          (rig = AsImported(rig) /\ error = "none")
    /\ CalibrationBonesMissing => pc # "aborted"

C20_Witness ==
    /\ CalibrationBonesMissing /\ pc = "animate_frame"
    /\ <<"mixamorig", "Hips">> \in DOMAIN rig.bones
    /\ rig.location = VInt(0, 2, 0) /\ rig.applied = {}
------------------------------------------------------------------------------
(* A single call of moving_average on a bounded input *)

\* frames of two landmarks whose six coordinates are pairwise different
MAFrames ==
    { [l \in 0..1 |-> <<RInt(b + 3 * l), RInt(b + 3 * l + 1), RInt(2 * b + 3 * l + 2)>>]
        : b \in {0, 1, 7} }

MAInputs == UNION { [0..(n - 1) -> MAFrames] : n \in 1..MaxLenMA }

MAWindows == (-1)..MaxWin

PipelineIdle ==
    /\ pc = "idle" /\ error = "none"
    /\ json_exists = FALSE /\ fbx_exists = FALSE /\ feed_wrapped = FALSE
    /\ pose = <<>> /\ scene_cleared = FALSE
    /\ arr_s = <<>> /\ landmark_data_world = <<>>
    /\ rig = NoRig /\ existing_bones = <<>>
    /\ frame_idx = 0 /\ keyframes = {}
    /\ scene_range = SceneDefaultRange /\ bake_args = NoBake
    /\ out_fbx_written = FALSE
    /\ reported_missing = {} /\ RENDER_PREVIEW = FALSE /\ out_mp4_written = FALSE

InitMA ==
    /\ PipelineIdle
    /\ \E a \in MAInputs : \E w \in MAWindows :
          call = [fn |-> "moving_average", arr |-> a, win |-> w, state |-> "called"]

CallMovingAverage ==
    /\ call.fn = "moving_average" /\ call.state = "called"
    /\ call' = IF MovingAverageRaises(call.arr, call.win)
               THEN [fn |-> "moving_average", arr |-> call.arr, win |-> call.win,
                     state |-> "raised", out |-> <<>>,
                     arr_after |-> ArrAfterCall(call.arr, call.win),
                     out_is_arr |-> FALSE]
               ELSE [fn |-> "moving_average", arr |-> call.arr, win |-> call.win,
                     state |-> "returned", out |-> moving_average(call.arr, call.win),
                     arr_after |-> ArrAfterCall(call.arr, call.win),
                     out_is_arr |-> ReturnsInputObject(call.arr, call.win)]
    /\ UNCHANGED pipeline_vars

NextMA == CallMovingAverage

SpecMA == InitMA /\ [][NextMA]_vars

------------------------------------------------------------------------------
(* Claims about moving_average, under SpecMA *)

MACalled == call.fn = "moving_average" /\ call.state # "called"

\* C6: for every sequence of shape (T, L, 3) with T >= 1 and every window, also one
\* larger than T, moving_average returns a sequence of the same shape (T, L, 3).
C6_SameShape ==
    MACalled =>
        /\ call.state = "returned"
        /\ DOMAIN call.out = DOMAIN call.arr
        /\ \A t \in DOMAIN call.arr :
              /\ DOMAIN call.out[t] = DOMAIN call.arr[t]
              /\ \A l \in DOMAIN call.arr[t] : Len(call.out[t][l]) = 3

C6_Witness ==
    /\ call.fn = "moving_average" /\ call.state = "returned"
    /\ call.win = 5 /\ NumFrames(call.arr) = 2
    /\ DOMAIN call.out = DOMAIN call.arr
    /\ call.out # call.arr

\* C7: for every window that is smaller than 3 or even, moving_average returns its
\* input, element for element, and raises nothing.
C7_NoOpWindow ==
    (MACalled /\ (call.win < 3 \/ call.win % 2 = 0)) =>
        /\ call.state = "returned"
        /\ call.out = call.arr

C7_Witness ==
    /\ call.fn = "moving_average" /\ call.state = "returned"
    /\ call.win = 4 /\ NumFrames(call.arr) = 2
    /\ call.arr[0] # call.arr[1]
    /\ call.out = call.arr

Clamp(i, lo, hi) == IF i < lo THEN lo ELSE IF i > hi THEN hi ELSE i

RECURSIVE ClampedSum(_, _, _, _, _, _)
\* sum of arr[clamp(t + d, 0, T-1)][l][c] over d = lo..hi
ClampedSum(arr, t, l, c, lo, hi) ==
    IF lo > hi THEN RZero
    ELSE RAdd(arr[Clamp(t + lo, 0, NumFrames(arr) - 1)][l][c],
              ClampedSum(arr, t, l, c, lo + 1, hi))

\* C8: for every odd window w >= 3, out[t][l][c] is the arithmetic mean of the w
\* values in[clamp(t + d, 0, T-1)][l][c], d = -(w div 2)..(w div 2): a centred window
\* along the time axis, edges replicated, no mixing of landmarks or coordinates.
C8_CentredMean ==
    (MACalled /\ call.win >= 3 /\ call.win % 2 = 1) =>
        /\ call.state = "returned"
        /\ \A t \in DOMAIN call.arr : \A l \in DOMAIN call.arr[t] : \A c \in 1..3 :
              call.out[t][l][c] =
                  RDiv(ClampedSum(call.arr, t, l, c, -(call.win \div 2), call.win \div 2),
                       RInt(call.win))

C8_Witness ==
    /\ call.fn = "moving_average" /\ call.state = "returned"
    /\ call.win = 3 /\ NumFrames(call.arr) = 3
    /\ call.arr[0] # call.arr[1] /\ call.arr[1] # call.arr[2]
    /\ call.out[1][0][1] # call.arr[1][0][1]
    /\ call.out[0][1][3] # call.out[2][1][3]


RLeq(a, b) == a[1] * b[2] <= b[1] * a[2]

\* the frames clamp(t - w div 2 .. t + w div 2, 0, T-1)
WindowFrames(arr, t, win) ==
    { Clamp(t + d, 0, NumFrames(arr) - 1) : d \in (-(win \div 2))..(win \div 2) }

\* v lies between the least and the greatest of arr[i][l][c], i in frames
Between(arr, frames, l, c, v) ==
    /\ \E i \in frames : RLeq(arr[i][l][c], v)
    /\ \E i \in frames : RLeq(v, arr[i][l][c])

\* C21: smoothing never overshoots: for every odd window w >= 3, every frame t,
\* landmark l and coordinate c, the smoothed value lies between the minimum and
\* the maximum of the input values of l, c over the frames of the clamped window
\* around t, and so between the minimum and maximum over the whole input.
C21_NoOvershoot ==
    (MACalled /\ call.win >= 3 /\ call.win % 2 = 1) =>
        /\ call.state = "returned"
        /\ \A t \in DOMAIN call.arr : \A l \in DOMAIN call.arr[t] : \A c \in 1..3 :
              /\ Between(call.arr, WindowFrames(call.arr, t, call.win), l, c,
                         call.out[t][l][c])
              /\ Between(call.arr, DOMAIN call.arr, l, c, call.out[t][l][c])

C21_Witness ==
    /\ MACalled /\ call.state = "returned"
    /\ call.win = 3 /\ NumFrames(call.arr) = 3
    /\ WindowFrames(call.arr, 0, call.win) = {0, 1}
    /\ \A i \in {0, 1} : call.out[0][0][2] # call.arr[i][0][2]
    /\ ~RLeq(call.out[0][0][2], call.arr[2][0][2])

------------------------------------------------------------------------------
(* A single call of vector_to_quat on a bounded input *)

QuatCoords == (-MaxCoord)..MaxCoord
QuatVectors == { VInt(x, y, z) : x \in QuatCoords, y \in QuatCoords, z \in QuatCoords }
\* line 262 passes (0, 1, 0); the function takes any axis
QuatRestAxes == { VInt(0, 1, 0), VInt(1, 0, 0), VInt(1, 1, 0) }

InitQuat ==
    /\ PipelineIdle
    /\ \E v \in QuatVectors : \E r \in QuatRestAxes :
          call = [fn |-> "vector_to_quat", vec |-> v, rest_axis |-> r, state |-> "called"]

CallVectorToQuat ==
    /\ call.fn = "vector_to_quat" /\ call.state = "called"
    /\ call' = [fn |-> "vector_to_quat", vec |-> call.vec, rest_axis |-> call.rest_axis,
                state |-> "returned", out |-> vector_to_quat(call.vec, call.rest_axis)]
    /\ UNCHANGED pipeline_vars

NextQuat == CallVectorToQuat

SpecQuat == InitQuat /\ [][NextQuat]_vars

\* C9: vector_to_quat returns the identity rotation, never an undefined one, when
\* the target is parallel to the rest axis, anti-parallel to it, or of zero length
\* (the inputs whose normalized cross product with the rest axis is below 1e-6).
C9_DegenerateIsIdentity ==
    (call.fn = "vector_to_quat" /\ call.state = "returned"
        /\ VCross(call.rest_axis, call.vec) = VZero) =>
        call.out = IdentityQuat

C9_Witness ==
    /\ call.fn = "vector_to_quat" /\ call.state = "returned"
    /\ call.rest_axis = VInt(0, 1, 0) /\ call.vec = VInt(0, -2, 0)
    /\ call.out = IdentityQuat

------------------------------------------------------------------------------
(* The /animate-character handler of app.py, lines 118-270 *)

\* app.py line 20
ALLOWED_EXTENSIONS == {"mp4", "avi", "mov", "json", "fbx"}

\* a file name is held as its parts between the dots: "a.tar.fbx" is
\* <<"a", "tar", "fbx">>, "" is <<"">>
Filenames ==
    { <<"">>, <<"character">>, <<"character", "fbx">>, <<"character", "FBX">>,
      <<"clip", "mp4">>, <<"clip", "avi">>, <<"clip", "MOV">>, <<"pose_data", "json">>,
      <<"character", "obj">>, <<"character", "fbx", "exe">>, <<"rig", "v2", "fbx">> }

\* str.lower() on the extensions of Filenames
Lower(s) ==
    IF s = "FBX" THEN "fbx"
    ELSE IF s = "MOV" THEN "mov"
    ELSE s

\* app.py lines 30-31: '.' in filename and filename.rsplit('.', 1)[1].lower() in ...
allowed_file(filename) ==
    Len(filename) > 1 /\ Lower(filename[Len(filename)]) \in ALLOWED_EXTENSIONS

\* the response of the handler
Respond(status, err) ==
    [call EXCEPT !.at = "responded", !.status = status, !.error = err]

\* a request and the server's surroundings; without a file part there is no file name
InitApp ==
    /\ PipelineIdle
    /\ \E has_file \in BOOLEAN : \E filename \in Filenames :
       \E pose_json_exists \in BOOLEAN : \E script_exists \in BOOLEAN :
       \E blender_found \in BOOLEAN : \E version_ok \in BOOLEAN :
       \E blender_run \in {"ok", "failed", "timeout"} : \E output_has_fbx \in BOOLEAN :
          /\ ~has_file => filename = <<"">>
          /\ call = [fn |-> "animate_character", at |-> "validate",
                     has_file |-> has_file, filename |-> filename,
                     pose_json_exists |-> pose_json_exists, script_exists |-> script_exists,
                     blender_found |-> blender_found, version_ok |-> version_ok,
                     blender_run |-> blender_run, output_has_fbx |-> output_has_fbx,
                     character_saved |-> FALSE, blender_launched |-> FALSE,
                     status |-> 0, error |-> ""]

\* app.py lines 124-139: the checks on the upload and on the pose data
ValidateUpload ==
    /\ call.fn = "animate_character" /\ call.at = "validate"
    /\ call' =
          IF ~call.has_file THEN Respond(400, "Character FBX file required")
          ELSE IF call.filename = <<"">> THEN Respond(400, "No character file selected")
          ELSE IF ~allowed_file(call.filename)
          THEN Respond(400, "Invalid file type. Only FBX supported")
          ELSE IF ~call.pose_json_exists
          THEN Respond(400, "Pose data not found. Please run Module 1 first.")
          ELSE [call EXCEPT !.at = "save"]
    /\ UNCHANGED pipeline_vars

\* app.py lines 142-144: character_fbx.save(assets/character.fbx)
SaveCharacter ==
    /\ call.fn = "animate_character" /\ call.at = "save"
    /\ call' = [call EXCEPT !.character_saved = TRUE, !.at = "locate_blender"]
    /\ UNCHANGED pipeline_vars

\* app.py lines 149-175: the script, the Blender executable and its version check
LocateBlender ==
    /\ call.fn = "animate_character" /\ call.at = "locate_blender"
    /\ call' =
          IF ~call.script_exists THEN Respond(500, "Blender/auto_oneclick.py not found")
          ELSE IF ~call.blender_found THEN Respond(500, "Blender not found")
          ELSE IF ~call.version_ok THEN Respond(500, "Blender executable not working")
          ELSE [call EXCEPT !.at = "run_blender"]
    /\ UNCHANGED pipeline_vars

\* app.py lines 180-197 and 266-267: subprocess.run of Blender with the script
RunBlender ==
    /\ call.fn = "animate_character" /\ call.at = "run_blender"
    /\ call' =
          IF call.blender_run = "timeout"
          THEN [Respond(500, "Animation timed out (>10 minutes)")
                   EXCEPT !.blender_launched = TRUE]
          ELSE IF call.blender_run = "failed"
          THEN [Respond(500, "Animation failed") EXCEPT !.blender_launched = TRUE]
          ELSE [call EXCEPT !.blender_launched = TRUE, !.at = "collect"]
    /\ UNCHANGED pipeline_vars

\* app.py lines 203-265: look for the animated FBX in the output folder
CollectOutput ==
    /\ call.fn = "animate_character" /\ call.at = "collect"
    /\ call' =
          IF ~call.output_has_fbx
          THEN Respond(500, "No animated FBX file was generated. Check Blender script output.")
          ELSE Respond(200, "")
    /\ UNCHANGED pipeline_vars

NextApp ==
    \/ ValidateUpload
    \/ SaveCharacter
    \/ LocateBlender
    \/ RunBlender
    \/ CollectOutput

SpecApp == InitApp /\ [][NextApp]_vars

------------------------------------------------------------------------------
(* Claims about the /animate-character handler, under SpecApp *)

\* the upload is a file whose name does not end in .fbx (in any letter case)
NonFbxUpload ==
    /\ call.fn = "animate_character"
    /\ call.has_file /\ call.filename # <<"">>
    /\ ~(Len(call.filename) > 1 /\ Lower(call.filename[Len(call.filename)]) = "fbx")

\* C18: an uploaded character file whose extension is not fbx is rejected with status
\* 400 and the error 'Invalid file type. Only FBX supported', before the file is saved
\* as assets/character.fbx and before Blender is launched.
C18_OnlyFbxAccepted ==
    NonFbxUpload =>
        /\ ~call.character_saved /\ ~call.blender_launched
        /\ call.at \in {"validate", "responded"}
        /\ call.at = "responded" =>
              (call.status = 400 /\ call.error = "Invalid file type. Only FBX supported")

\* the uploads without a dot in the name, or with an extension outside
\* ALLOWED_EXTENSIONS, are rejected as C18 says
RejectedOutsideAllowed ==
    (NonFbxUpload /\ (Len(call.filename) = 1
                        \/ Lower(call.filename[Len(call.filename)]) \notin ALLOWED_EXTENSIONS)) =>
        /\ ~call.character_saved /\ ~call.blender_launched
        /\ call.at \in {"validate", "responded"}
        /\ call.at = "responded" =>
              (call.status = 400 /\ call.error = "Invalid file type. Only FBX supported")

====
